---------------------------- MODULE Spec2Model ----------------------------
(***************************************************************************)
(* A model of pickle_rick (src/pickle_rick/__init__.py): the classes       *)
(* BasicRick and ExtendedPickleRick.                                       *)
(*                                                                         *)
(* A Python value is a record [tag, s, n, items]:                          *)
(*   tag = "int" | "str" | "bool" | "none"   a scalar (n or s holds it)    *)
(*   tag = "dict"   a raw mapping; items is its <<key, value>> pairs in    *)
(*                  insertion order                                        *)
(*   tag = "list"   a sequence; items is its <<"", element>> pairs         *)
(*   tag = "node"   a BasicRick / ExtendedPickleRick object; s is the      *)
(*                  class name and items is the object's __dict__          *)
(*   tag = "code"   the result of eval() on the source text s              *)
(*   tag = "text"   a YAML document; items is the document's top-level     *)
(*                  mapping in document order                              *)
(***************************************************************************)
EXTENDS Integers, Sequences, FiniteSets, TLC

VARIABLES
    base,       \* the constructor's argument `base`
    deep,       \* the constructor's argument `deep`
    args,       \* ExtendedPickleRick's load_lambda (the `args` dict's only entry)
    cls,        \* the class being constructed
    environ,    \* os.environ, restricted to the variables the input names
    status,     \* "new", "built", or the name of the exception __init__ raised
    self,       \* the object: its class and its __dict__
    other,      \* a second object, rebuilt from self's YAML text
    evaled,     \* the source texts handed to eval() so far
    out,        \* the caller's iteration: its state and the values yielded
    ret         \* the last operation and what it returned or raised

vars == <<base, deep, args, cls, environ, status, self, other, evaled, out, ret>>

-----------------------------------------------------------------------------
(* Python values *)

IntV(i) == [tag |-> "int", s |-> "", n |-> i, items |-> <<>>]
StrV(t) == [tag |-> "str", s |-> t, n |-> 0, items |-> <<>>]
BoolV(b) == [tag |-> "bool", s |-> "", n |-> IF b THEN 1 ELSE 0, items |-> <<>>]
NoneV == [tag |-> "none", s |-> "", n |-> 0, items |-> <<>>]
Dict(it) == [tag |-> "dict", s |-> "", n |-> 0, items |-> it]
List(it) == [tag |-> "list", s |-> "", n |-> 0, items |-> it]
Node(c, it) == [tag |-> "node", s |-> c, n |-> 0, items |-> it]
Code(t) == [tag |-> "code", s |-> t, n |-> 0, items |-> <<>>]
Text(it) == [tag |-> "text", s |-> "", n |-> 0, items |-> it]

\* A list's items from a sequence of elements.
Elems(seq) == [i \in 1..Len(seq) |-> <<"", seq[i]>>]

isDict(v) == v.tag = "dict"
isList(v) == v.tag = "list"
isNode(v) == v.tag = "node"

\* Python truthiness. An object of a class that defines __len__ (line 98)
\* and no __bool__ is false when its length is 0.
Truthy(v) ==
    CASE v.tag = "int" -> v.n # 0
      [] v.tag = "bool" -> v.n # 0
      [] v.tag = "str" -> v.s # ""
      [] v.tag = "none" -> FALSE
      [] v.tag \in {"dict", "list", "node", "text"} -> Len(v.items) # 0
      [] OTHER -> TRUE

-----------------------------------------------------------------------------
(* dict primitives: `k in d`, d[k], d.update({k: v}), list(d.keys()) *)

KeySet(it) == {it[i][1] : i \in 1..Len(it)}
HasKey(it, k) == k \in KeySet(it)
IndexOf(it, k) == CHOOSE i \in 1..Len(it) : it[i][1] = k
Lookup(it, k) == it[IndexOf(it, k)][2]

\* An existing key keeps its position and takes the new value; a new key
\* goes last.
Update(it, k, v) ==
    IF HasKey(it, k)
    THEN [i \in 1..Len(it) |-> IF it[i][1] = k THEN <<k, v>> ELSE it[i]]
    ELSE Append(it, <<k, v>>)

\* What a call returns or raises.
Ok(v) == [exc |-> "", val |-> v]
Raise(e) == [exc |-> e, val |-> NoneV]

-----------------------------------------------------------------------------
(* The inputs: every value built from the atoms A and the keys K whose    *)
(* size (one per scalar, mapping and sequence in it) is exactly n.         *)

RECURSIVE ValuesOfSize(_, _, _, _), DictItems(_, _, _, _, _), ListItems(_, _, _, _)
\* The bodies of mappings of total size m whose keys are drawn, without
\* repetition and in every order, from Kr.
DictItems(K, Kr, A, L, m) ==
    IF m = 0 THEN {<<>>}
    ELSE UNION {UNION {{<<<<k, v>>>> \o rest :
                           v \in ValuesOfSize(K, A, L, i),
                           rest \in DictItems(K, Kr \ {k}, A, L, m - i)} :
                       i \in 1..m} : k \in Kr}

ListItems(K, A, L, m) ==
    IF m = 0 THEN {<<>>}
    ELSE UNION {{<<<<"", v>>>> \o rest :
                    v \in ValuesOfSize(K, A, L, i),
                    rest \in ListItems(K, A, L, m - i)} : i \in 1..m}

\* L: whether sequences occur.
ValuesOfSize(K, A, L, n) ==
    (IF n = 1 THEN A ELSE {})
    \cup {Dict(it) : it \in DictItems(K, K, A, L, n - 1)}
    \cup (IF L THEN {List(it) : it \in ListItems(K, A, L, n - 1)} ELSE {})

\* The mappings of size at most n.
Mappings(K, A, L, n) ==
    UNION {{Dict(it) : it \in DictItems(K, K, A, L, m)} : m \in 0..(n - 1)}

-----------------------------------------------------------------------------
(* The Tree Builder *)

\* The deep flag ignored: every sequence is rebuilt.
descends_any_list(v, dp) == isList(v)

\* Line 24: a sequence is rebuilt only when deep is set.
descends_list(v, dp) == isList(v) /\ dp

\* BasicRick._iternalize, lines 19-34, on an object whose __dict__ is d:
\* the entries of dictionary from the i-th on.
RECURSIVE iternalize_from(_, _, _, _)
iternalize_from(dictionary, i, d, dp) ==
    IF i > Len(dictionary) THEN d
    ELSE LET k == dictionary[i][1]
             v == dictionary[i][2]
             new_list == [j \in 1..Len(v.items) |->
                            IF isDict(v.items[j][2])
                            THEN <<"", Node("BasicRick",
                                      iternalize_from(v.items[j][2].items, 1, <<>>, dp))>>
                            ELSE v.items[j]]
             stored == IF isDict(v)
                       THEN Node("BasicRick", iternalize_from(v.items, 1, <<>>, dp))
                       ELSE IF descends_list(v, dp) THEN List(new_list)
                       ELSE v
         IN  iternalize_from(dictionary, i + 1, Update(d, k, stored), dp)

\* A new object's __dict__ is empty when __init__ calls _iternalize.
iternalize(dictionary, dp) == iternalize_from(dictionary, 1, <<>>, dp)

-----------------------------------------------------------------------------
(* Method calls.  obj.name(...) looks name up in the object's __dict__     *)
(* before the class: an entry written there by _iternalize (lines 22, 31,  *)
(* 34) under a method's name hides the method, and calling the entry, which *)
(* is a scalar, a list or a Node, raises TypeError.  The special methods    *)
(* (__len__, __iter__, __next__, __eq__, __getitem__) are looked up on the  *)
(* class alone.                                                             *)

Hidden(fields, name) == HasKey(fields, name)

\* BasicRick.dict, lines 187-200, called as v.dict().
RECURSIVE dict(_)
RECURSIVE dict_from(_, _, _)
dict_from(fields, i, d) ==
    IF i > Len(fields) THEN Ok(Dict(d))
    ELSE LET key == fields[i][1]
             value == fields[i][2]
         IN  IF isNode(value)
             THEN LET r == dict(value)
                  IN  IF r.exc # "" THEN r
                      ELSE dict_from(fields, i + 1, Update(d, key, r.val))
             ELSE dict_from(fields, i + 1, Update(d, key, value))

dict(v) ==
    IF Hidden(v.items, "dict") THEN Raise("TypeError")
    ELSE dict_from(v.items, 1, <<>>)

-----------------------------------------------------------------------------
(* The Node Accessor *)

\* str.lower() and str.upper() on the names the model uses.
lower(k) ==
    CASE k = "K" -> "k"
      [] k = "A" -> "a"
      [] k = "BasicRick_a" -> "basicrick_a"
      [] k = "_BasicRick__n" -> "_basicrick__n"
      [] OTHER -> k
upper(k) ==
    CASE k = "k" -> "K"
      [] k = "a" -> "A"
      [] k = "b" -> "B"
      [] k = "x" -> "X"
      [] k = "y" -> "Y"
      [] k = "get" -> "GET"
      [] k = "dict" -> "DICT"
      [] k = "x__n" -> "X__N"
      [] k = "y__n" -> "Y__N"
      [] k = "BasicRick_a" -> "BASICRICK_A"
      [] k = "_BasicRick__n" -> "_BASICRICK__N"
      [] OTHER -> k

\* Line 125 and line 129: `if value:`.
found(value) == Truthy(value)

\* BasicRick._recursive_search, lines 119-130; a search that finds nothing
\* falls off the end and returns None.
RECURSIVE recursive_search(_, _)
RECURSIVE search_from(_, _, _)
search_from(dictionary, i, key) ==
    IF i > Len(dictionary) THEN NoneV
    ELSE LET v == dictionary[i][2]
         IN  IF (isNode(v) \/ isDict(v)) /\ found(recursive_search(v.items, key))
             THEN recursive_search(v.items, key)
             ELSE search_from(dictionary, i + 1, key)

recursive_search(dictionary, key) ==
    IF HasKey(dictionary, key) THEN Lookup(dictionary, key)
    ELSE search_from(dictionary, 1, key)

\* BasicRick.get, lines 142-161, called as obj.get(key, default).
get(obj, key, default) ==
    IF Hidden(obj.items, "get") \/ Hidden(obj.items, "_recursive_search")
    THEN Raise("TypeError")
    ELSE LET v1 == recursive_search(obj.items, key)
             v2 == IF ~Truthy(v1) THEN recursive_search(obj.items, lower(key)) ELSE v1
             v3 == IF ~Truthy(v1) /\ ~Truthy(v2)
                   THEN recursive_search(obj.items, upper(key)) ELSE v2
         IN  IF ~Truthy(v3) THEN Ok(default) ELSE Ok(v3)

\* The search run whatever deep is.
searches_always(dp) == TRUE

\* Line 215: the search runs only when deep is set.
searches(dp) == dp

\* BasicRick.has, lines 202-219, called as obj.has(key, deep).
has(obj, key, dp) ==
    IF Hidden(obj.items, "has") THEN Raise("TypeError")
    ELSE IF HasKey(obj.items, key) THEN Ok(BoolV(TRUE))
    ELSE IF searches(dp)
    THEN IF Hidden(obj.items, "_recursive_search") THEN Raise("TypeError")
         ELSE Ok(BoolV(Truthy(recursive_search(obj.items, key))))
    ELSE Ok(BoolV(FALSE))

\* BasicRick.__getitem__, lines 95-96.
getitem(obj, key) ==
    IF HasKey(obj.items, key) THEN Ok(Lookup(obj.items, key)) ELSE Raise("KeyError")

\* BasicRick.__len__, lines 98-99.
len(obj) == Ok(IntV(Len(obj.items)))

\* The name the class body's self.__n is mangled to.
cursor == "_BasicRick__n"
\* str(name).__contains__(self.__class__.__name__) and
\* str(name).endswith('__n'), on the names the model uses.
contains_class_name(name, c) ==
    c = "BasicRick" /\ name \in {"_BasicRick__n", "BasicRick_a"}
endswith_n(name) == name \in {"_BasicRick__n", "x__n", "y__n"}
bookkeeping(name, c) == contains_class_name(name, c) \/ endswith_n(name)

\* The subsequence of it whose keys are not bookkeeping names.
RECURSIVE visible(_, _)
visible(it, c) ==
    IF it = <<>> THEN <<>>
    ELSE IF bookkeeping(Head(it)[1], c) THEN visible(Tail(it), c)
    ELSE <<Head(it)>> \o visible(Tail(it), c)

\* BasicRick.values, lines 163-173.
values(obj) ==
    IF Hidden(obj.items, "values") THEN Raise("TypeError")
    ELSE Ok(List([i \in 1..Len(visible(obj.items, obj.s)) |->
                    <<"", visible(obj.items, obj.s)[i][2]>>]))

\* BasicRick.keys, lines 175-185.
keys(obj) ==
    IF Hidden(obj.items, "keys") THEN Raise("TypeError")
    ELSE Ok(List([i \in 1..Len(visible(obj.items, obj.s)) |->
                    <<"", StrV(visible(obj.items, obj.s)[i][1])>>]))

\* BasicRick.items, lines 132-140, run to its end: the pairs it yields.
items(obj) ==
    IF Hidden(obj.items, "items") THEN Raise("TypeError")
    ELSE Ok(Dict(obj.items))

\* BasicRick.__iter__, lines 101-103: the object's __dict__ afterwards.
iter(fields) == Update(fields, cursor, IntV(0))

\* Line 108: whether the name under the cursor is skipped.
skips(name, c) == bookkeeping(name, c)

\* BasicRick.__next__, lines 105-117: the object's __dict__ afterwards and
\* what the call returns or raises.
next(fields, c) ==
    IF ~HasKey(fields, cursor) THEN [fields |-> fields] @@ Raise("AttributeError")
    ELSE IF Lookup(fields, cursor).tag # "int" THEN [fields |-> fields] @@ Raise("TypeError")
    ELSE LET n0 == Lookup(fields, cursor).n
         IN  IF n0 < Len(fields)
             THEN LET name == fields[n0 + 1][1]
                      f1 == IF skips(name, c) THEN Update(fields, cursor, IntV(n0 + 1))
                            ELSE fields
                      n1 == Lookup(f1, cursor).n
                  IN  IF n1 < Len(f1)
                      THEN [fields |-> Update(f1, cursor, IntV(n1 + 1))]
                           @@ Ok(f1[n1 + 1][2])
                      ELSE [fields |-> f1] @@ Raise("StopIteration")
             ELSE [fields |-> fields] @@ Raise("StopIteration")

-----------------------------------------------------------------------------
(* Equality and serialization *)

Tok(t, s, n) == [t |-> t, s |-> s, n |-> n]

\* repr(v) as a sequence of tokens; BasicRick.__repr__, lines 84-87, for an
\* object: ClassName(key=repr(value), ...) in the order of its __dict__.
RECURSIVE repr(_)
RECURSIVE repr_items(_, _, _)
repr_items(it, i, sep) ==
    IF i > Len(it) THEN <<>>
    ELSE (IF i > 1 THEN <<Tok(",", "", 0)>> ELSE <<>>)
         \o (IF sep = "" THEN <<>> ELSE <<Tok("key", it[i][1], 0), Tok(sep, "", 0)>>)
         \o repr(it[i][2])
         \o repr_items(it, i + 1, sep)

repr(v) ==
    CASE v.tag = "node" ->
            <<Tok("name", v.s, 0), Tok("(", "", 0)>> \o repr_items(v.items, 1, "=")
            \o <<Tok(")", "", 0)>>
      [] v.tag = "dict" ->
            <<Tok("{", "", 0)>> \o repr_items(v.items, 1, ":") \o <<Tok("}", "", 0)>>
      [] v.tag = "list" ->
            <<Tok("[", "", 0)>> \o repr_items(v.items, 1, "") \o <<Tok("]", "", 0)>>
      [] OTHER -> <<Tok(v.tag, v.s, v.n)>>

\* BasicRick.__eq__, lines 89-90.
eq(a, b) == Ok(BoolV(repr(a) = repr(b)))

\* The order of Python's str comparison on the names the model uses.
NameOrder == <<"A", "B", "K", "_BasicRick__n", "a", "b", "dict", "get", "k", "x", "y">>
rank(k) == CHOOSE i \in 1..Len(NameOrder) : NameOrder[i] = k

\* yaml.safe_dump's default sort_keys=True: every mapping is written with
\* its keys sorted.
RECURSIVE sorted(_)
RECURSIVE sorted_items(_)
sorted_items(it) ==
    IF it = <<>> THEN <<>>
    ELSE LET m == CHOOSE i \in 1..Len(it) :
                      \A j \in 1..Len(it) : rank(it[i][1]) <= rank(it[j][1])
             rest == [j \in 1..(Len(it) - 1) |-> IF j < m THEN it[j] ELSE it[j + 1]]
         IN  <<<<it[m][1], sorted(it[m][2])>>>> \o sorted_items(rest)

sorted(v) ==
    CASE v.tag = "dict" -> Dict(sorted_items(v.items))
      [] v.tag = "list" -> List([i \in 1..Len(v.items) |-> <<"", sorted(v.items[i][2])>>])
      [] OTHER -> v

\* Whether an object, which the safe representer cannot write, occurs in v.
RECURSIVE has_object(_)
has_object(v) ==
    \/ v.tag \in {"node", "code"}
    \/ \E i \in 1..Len(v.items) : has_object(v.items[i][2])

\* A text is what the two parsers make of it: a value, or ParseError when
\* the parser raises.
ParseError == [tag |-> "error", s |-> "", n |-> 0, items |-> <<>>]
TextOf(y, j) == Text(<<<<"yaml", y>>, <<"json", j>>>>)

\* yaml.safe_dump(d, None): block style, which is JSON only for the empty
\* mapping ("{}").
safe_dump(d) ==
    IF has_object(d) THEN Raise("RepresenterError")
    ELSE Ok(TextOf(sorted(d), IF d.items = <<>> THEN d ELSE ParseError))

\* BasicRick.to_yaml_string, lines 232-240.
to_yaml_string(obj) ==
    IF Hidden(obj.items, "to_yaml_string") THEN Raise("TypeError")
    ELSE IF dict(obj).exc # "" THEN dict(obj)
    ELSE safe_dump(dict(obj).val)

-----------------------------------------------------------------------------
(* The Placeholder Resolver *)

EnvNames == {"MY_VAR"}
\* The default taken first: the variable is read only when no default is
\* given.
getenv_default_first(env, name, default) ==
    IF default # NoneV THEN default ELSE env[name.s]

\* os.getenv(name, default): the variable's value when set (environ holds
\* NoneV for an unset variable), else default.
getenv(env, name, default) ==
    IF env[name.s] # NoneV THEN env[name.s] ELSE default

is_env(v) == HasKey(v.items, "type") /\ Lookup(v.items, "type") = StrV("env")
is_lambda(v) == HasKey(v.items, "type") /\ Lookup(v.items, "type") = StrV("lambda")

\* Line 283: `args and args['load_lambda']`; args is {'load_lambda': ll}.
evaluates(ll) == ll
\* A child that evaluates whatever the root was told.
child_flag_set(ll) == TRUE

\* Lines 288, 294: the flag handed to a child's constructor.
child_flag(ll) == ll

\* ExtendedPickleRick._iternalize, lines 273-299: the object's __dict__ and
\* the texts handed to eval(), in order.
RECURSIVE ext_iternalize_from(_, _, _, _, _, _, _)
RECURSIVE ext_list_from(_, _, _, _, _, _, _)
ext_list_from(elems, j, new_list, ev, dp, ll, env) ==
    IF j > Len(elems) THEN [fields |-> new_list, evaled |-> ev]
    ELSE LET e == elems[j][2]
         IN  IF isDict(e)
             THEN LET c == ext_iternalize_from(e.items, 1, <<>>, ev, dp, child_flag(ll), env)
                  IN  ext_list_from(elems, j + 1,
                          Append(new_list, <<"", Node("ExtendedPickleRick", c.fields)>>),
                          c.evaled, dp, ll, env)
             ELSE ext_list_from(elems, j + 1, Append(new_list, elems[j]), ev, dp, ll, env)

ext_iternalize_from(dictionary, i, d, ev, dp, ll, env) ==
    IF i > Len(dictionary) THEN [fields |-> d, evaled |-> ev]
    ELSE LET k == dictionary[i][1]
             v == dictionary[i][2]
         IN  IF isDict(v) /\ is_env(v)
             THEN LET got == IF HasKey(v.items, "default")
                             THEN getenv(env, Lookup(v.items, "load"), Lookup(v.items, "default"))
                             ELSE getenv(env, Lookup(v.items, "load"), NoneV)
                  IN  ext_iternalize_from(dictionary, i + 1, Update(d, k, got), ev, dp, ll, env)
             ELSE IF isDict(v) /\ is_lambda(v)
             THEN IF evaluates(ll)
                  THEN ext_iternalize_from(dictionary, i + 1,
                           Update(d, k, Code(Lookup(v.items, "load").s)),
                           Append(ev, Lookup(v.items, "load").s), dp, ll, env)
                  ELSE ext_iternalize_from(dictionary, i + 1,
                           Update(d, k, Lookup(v.items, "load")), ev, dp, ll, env)
             ELSE IF isDict(v)
             THEN LET c == ext_iternalize_from(v.items, 1, <<>>, ev, dp, child_flag(ll), env)
                  IN  ext_iternalize_from(dictionary, i + 1,
                          Update(d, k, Node("ExtendedPickleRick", c.fields)),
                          c.evaled, dp, ll, env)
             ELSE IF isList(v) /\ dp
             THEN LET c == ext_list_from(v.items, 1, <<>>, ev, dp, ll, env)
                  IN  ext_iternalize_from(dictionary, i + 1,
                          Update(d, k, List(c.fields)), c.evaled, dp, ll, env)
             ELSE ext_iternalize_from(dictionary, i + 1, Update(d, k, v), ev, dp, ll, env)

ext_iternalize(dictionary, dp, ll, env) ==
    ext_iternalize_from(dictionary, 1, <<>>, <<>>, dp, ll, env)

-----------------------------------------------------------------------------
(* Construction *)

\* What is left of a stream that has been read to its end.
EmptyText == TextOf(NoneV, ParseError)

yaml_load(text) ==
    IF Lookup(text.items, "yaml") = ParseError THEN Raise("YAMLError")
    ELSE Ok(Lookup(text.items, "yaml"))
json_load(text) ==
    IF Lookup(text.items, "json") = ParseError THEN Raise("JSONDecodeError")
    ELSE Ok(Lookup(text.items, "json"))

\* The constructor's argument: a mapping, an open text stream on a text, or
\* a string; isfile says whether the string names a file, which then holds
\* the text file.
DictBase(m) == [kind |-> "dict", val |-> m, isfile |-> FALSE, file |-> EmptyText]
StreamBase(t) == [kind |-> "stream", val |-> t, isfile |-> FALSE, file |-> EmptyText]
StrBase(t) == [kind |-> "str", val |-> t, isfile |-> FALSE, file |-> EmptyText]
PathBase(t, f) == [kind |-> "str", val |-> t, isfile |-> TRUE, file |-> f]

\* self._iternalize(config_data, deep, args) inside a try: a value that is
\* no mapping has no items() and the AttributeError is caught.
internalizes(r) == r.exc = "" /\ isDict(r.val)

Built(c, m, dp, ll, env) ==
    IF c = "BasicRick"
    THEN [exc |-> "", fields |-> iternalize(m.items, dp), evaled |-> <<>>]
    ELSE [exc |-> ""] @@ ext_iternalize(m.items, dp, ll, env)
Failed(e) == [exc |-> e, fields |-> <<>>, evaled |-> <<>>]

\* Lines 68-82: the string itself as YAML, then as JSON, then ValueError.
init_string(b, c, dp, ll, env) ==
    IF b.kind = "str" /\ internalizes(yaml_load(b.val))
    THEN Built(c, yaml_load(b.val).val, dp, ll, env)
    ELSE IF b.kind = "str" /\ internalizes(json_load(b.val))
    THEN Built(c, json_load(b.val).val, dp, ll, env)
    ELSE Failed("ValueError")

\* Lines 55-67: os.path.isfile(base) raises TypeError for an argument that
\* is no path (it catches OSError and ValueError only); a file is opened
\* anew for each parser.
init_path(b, c, dp, ll, env) ==
    IF b.kind = "stream" THEN Failed("TypeError")
    ELSE IF b.isfile /\ internalizes(yaml_load(b.file))
    THEN Built(c, yaml_load(b.file).val, dp, ll, env)
    ELSE IF b.isfile /\ internalizes(json_load(b.file))
    THEN Built(c, json_load(b.file).val, dp, ll, env)
    ELSE init_string(b, c, dp, ll, env)

\* Lines 41-53: yaml.load reads the stream to its end, so json.load reads
\* what is left of it.
init_stream(b, c, dp, ll, env) ==
    IF b.kind = "stream" /\ internalizes(yaml_load(b.val))
    THEN Built(c, yaml_load(b.val).val, dp, ll, env)
    ELSE IF b.kind = "stream" /\ internalizes(json_load(EmptyText))
    THEN Built(c, json_load(EmptyText).val, dp, ll, env)
    ELSE init_path(b, c, dp, ll, env)

\* BasicRick.__init__, lines 36-82 (ExtendedPickleRick.__init__, lines
\* 301-302, calls it with args = {'load_lambda': load_lambda}).
BasicRick_init(b, c, dp, ll, env) ==
    IF b.kind = "dict" THEN Built(c, b.val, dp, ll, env)
    ELSE init_stream(b, c, dp, ll, env)

-----------------------------------------------------------------------------
(* The state machine *)

NoRet == [op |-> "", key |-> "", arg |-> NoneV, val |-> NoneV, exc |-> ""]
NoEnv == [v \in EnvNames |-> NoneV]
Idle == [state |-> "idle", vals |-> <<>>]
\* A default no input holds.
Sentinel == StrV("<sentinel>")

InitWith(bases, classes, flags, envs) ==
    /\ base \in bases
    /\ deep \in BOOLEAN
    /\ cls \in classes
    /\ args \in flags
    /\ environ \in envs
    /\ status = "new"
    /\ self = Node(cls, <<>>)
    /\ other = NoneV
    /\ evaled = <<>>
    /\ out = Idle
    /\ ret = NoRet

\* cls(base, deep[, load_lambda])
Construct ==
    /\ status = "new"
    /\ LET r == BasicRick_init(base, cls, deep, args, environ)
       IN  /\ status' = (IF r.exc = "" THEN "built" ELSE r.exc)
           /\ self' = Node(cls, r.fields)
           /\ evaled' = r.evaled
    /\ UNCHANGED <<base, deep, args, cls, environ, other, out, ret>>

\* A call that reads the object: what it returned or raised.
Returns(op, key, arg, r) ==
    /\ status = "built"
    /\ ret' = [op |-> op, key |-> key, arg |-> arg, val |-> r.val, exc |-> r.exc]
    /\ UNCHANGED <<base, deep, args, cls, environ, status, self, other, evaled, out>>

\* self.dict()
DictOp == Returns("dict", "", NoneV, dict(self))

\* self.get(key) and self.get(key, Sentinel)
Get(key, default) == Returns("get", key, default, get(self, key, default))

\* self.has(key) and self.has(key, True)
Has(key, dp) == Returns("has", key, BoolV(dp), has(self, key, dp))

\* self[key]
GetItem(key) == Returns("getitem", key, NoneV, getitem(self, key))

\* len(self)
LenOp == Returns("len", "", NoneV, len(self))

\* self.values()
Values == Returns("values", "", NoneV, values(self))

\* self.keys()
Keys == Returns("keys", "", NoneV, keys(self))

\* list(self.items())
Items == Returns("items", "", NoneV, items(self))

\* self.to_yaml_string()
ToYamlString == Returns("to_yaml_string", "", NoneV, to_yaml_string(self))

\* self == other
EqOp ==
    /\ isNode(other)
    /\ Returns("eq", "", NoneV, eq(self, other))

\* other = BasicRick(text, deep) on the text to_yaml_string returned, which
\* names no file.
Rebuild ==
    /\ status = "built"
    /\ ret.op = "to_yaml_string"
    /\ ret.exc = ""
    /\ LET r == BasicRick_init(StrBase(ret.val), "BasicRick", deep, FALSE, environ)
       IN  /\ other' = (IF r.exc = "" THEN Node("BasicRick", r.fields) ELSE NoneV)
           /\ ret' = [op |-> "rebuild", key |-> "", arg |-> NoneV,
                      val |-> NoneV, exc |-> r.exc]
    /\ UNCHANGED <<base, deep, args, cls, environ, status, self, evaled, out>>

\* iter(self)
Iter ==
    /\ status = "built"
    /\ self' = Node(self.s, iter(self.items))
    /\ out' = [state |-> "active", vals |-> <<>>]
    /\ ret' = [op |-> "iter", key |-> "", arg |-> NoneV, val |-> NoneV, exc |-> ""]
    /\ UNCHANGED <<base, deep, args, cls, environ, status, other, evaled>>

\* next(self); the caller collects what an iteration it requested yields
\* until StopIteration.
NextOp ==
    /\ status = "built"
    /\ LET r == next(self.items, self.s)
       IN  /\ self' = Node(self.s, r.fields)
           /\ ret' = [op |-> "next", key |-> "", arg |-> NoneV, val |-> r.val,
                      exc |-> r.exc]
           /\ out' = IF out.state # "active" THEN out
                     ELSE IF r.exc = "" THEN [out EXCEPT !.vals = Append(@, r.val)]
                     ELSE [out EXCEPT !.state = "done"]
    /\ UNCHANGED <<base, deep, args, cls, environ, status, other, evaled>>

-----------------------------------------------------------------------------
(* Tree building and deconstruction *)

MaxSizeBuild == 5
BuildKeys == {"a", "dict"}
BuildAtoms == {IntV(0), IntV(1)}

InitBuild ==
    InitWith({DictBase(m) : m \in Mappings(BuildKeys, BuildAtoms, TRUE, MaxSizeBuild)},
             {"BasicRick"}, {FALSE}, {NoEnv})
NextBuild == Construct \/ DictOp
SpecBuild == InitBuild /\ [][NextBuild]_vars

\* Python's == on plain values: mappings compare without regard to order.
RECURSIVE PyEq(_, _)
PyEq(a, b) ==
    IF a.tag = "dict" /\ b.tag = "dict"
    THEN /\ KeySet(a.items) = KeySet(b.items)
         /\ \A k \in KeySet(a.items) : PyEq(Lookup(a.items, k), Lookup(b.items, k))
    ELSE IF a.tag = "list" /\ b.tag = "list"
    THEN /\ Len(a.items) = Len(b.items)
         /\ \A i \in 1..Len(a.items) : PyEq(a.items[i][2], b.items[i][2])
    ELSE a = b

RECURSIVE NoLists(_)
NoLists(v) == v.tag # "list" /\ \A i \in 1..Len(v.items) : NoLists(v.items[i][2])

\* C1: for a mapping M with no list at any depth, and either deep flag,
\* BasicRick(M).dict() returns a plain mapping equal to M.
C1_DictInvertsBuild ==
    (ret.op = "dict" /\ NoLists(base.val))
        => (ret.exc = "" /\ PyEq(ret.val, base.val))

\* What the Tree Builder is to store for the mapping m in the __dict__ d:
\* the same keys in the same order, and under each key a BasicRick built the
\* same way for a mapping, for a sequence under deep a sequence of the same
\* length whose mapping elements are BasicRicks built the same way and whose
\* other elements are unchanged, and the value itself otherwise.
RECURSIVE Conforms(_, _, _)
Conforms(m, d, dp) ==
    /\ Len(d) = Len(m)
    /\ \A i \in 1..Len(m) :
        LET v == m[i][2]
            w == d[i][2]
        IN  /\ d[i][1] = m[i][1]
            /\ IF v.tag = "dict"
               THEN w.tag = "node" /\ w.s = "BasicRick" /\ Conforms(v.items, w.items, dp)
               ELSE IF v.tag = "list" /\ dp
               THEN /\ w.tag = "list"
                    /\ Len(w.items) = Len(v.items)
                    /\ \A j \in 1..Len(v.items) :
                        LET e == v.items[j][2]
                            f == w.items[j][2]
                        IN  IF e.tag = "dict"
                            THEN /\ f.tag = "node"
                                 /\ f.s = "BasicRick"
                                 /\ Conforms(e.items, f.items, dp)
                            ELSE f = e
               ELSE w = v

\* C3: the Tree Builder stores a child Node for a mapping at every depth,
\* a rebuilt sequence for a sequence when deep is set, and every other value
\* (a scalar, and a sequence when deep is not set) unchanged.
C3_BuilderStores ==
    status = "built" => Conforms(base.val.items, self.items, deep)

\* Under deep, a sequence holds a Node, built from a mapping that is not
\* empty, beside an element left as it was.
C3_Witness ==
    /\ status = "built"
    /\ deep
    /\ \E i \in 1..Len(self.items) :
        /\ self.items[i][2].tag = "list"
        /\ \E j, k \in 1..Len(self.items[i][2].items) :
            /\ self.items[i][2].items[j][2].tag = "node"
            /\ self.items[i][2].items[j][2].items # <<>>
            /\ self.items[i][2].items[k][2].tag = "int"

-----------------------------------------------------------------------------
(* Searching *)

MaxSizeGet == 4
GetKeys == {"k", "K", "get"}
GetAtoms == {IntV(0), IntV(1)}

InitGet ==
    InitWith({DictBase(m) : m \in Mappings(GetKeys, GetAtoms, TRUE, MaxSizeGet)},
             {"BasicRick"}, {FALSE}, {NoEnv})
NextGet ==
    \/ Construct
    \/ \E key \in GetKeys, default \in {NoneV, Sentinel} : Get(key, default)
    \/ \E key \in GetKeys, dp \in BOOLEAN : Has(key, dp)
SpecGet == InitGet /\ [][NextGet]_vars

\* v with every object in it turned back into a mapping.
RECURSIVE Plain(_)
Plain(v) ==
    CASE v.tag = "node" -> Dict([i \in 1..Len(v.items) |->
                                    <<v.items[i][1], Plain(v.items[i][2])>>])
      [] v.tag \in {"dict", "list"} ->
            [v EXCEPT !.items = [i \in 1..Len(v.items) |->
                                    <<v.items[i][1], Plain(v.items[i][2])>>]]
      [] OTHER -> v

\* C2: for every key k at the top level of M, BasicRick(M).get(k) returns a
\* value equal to M[k], falsy scalars and nested mappings included.
C2_GetReturnsTopLevel ==
    (ret.op = "get" /\ ret.arg = NoneV /\ HasKey(base.val.items, ret.key))
        => (ret.exc = "" /\ PyEq(Plain(ret.val), Lookup(base.val.items, ret.key)))

\* Every value stored under k, at any depth of v, is truthy.
RECURSIVE AllTruthyUnder(_, _)
AllTruthyUnder(v, k) ==
    \A i \in 1..Len(v.items) :
        /\ (v.tag \in {"node", "dict"} /\ v.items[i][1] = k) => Truthy(v.items[i][2])
        /\ AllTruthyUnder(v.items[i][2], k)

\* C8 as stated: when every value stored under k is truthy, has(k) is true
\* if and only if get(k, sentinel) returns something other than the
\* sentinel.
C8_HasIffGet ==
    (ret.op = "has" /\ ret.arg = BoolV(FALSE) /\ AllTruthyUnder(self, ret.key))
        => (ret.val = BoolV(TRUE)
              <=> (get(self, ret.key, Sentinel).exc = ""
                     /\ get(self, ret.key, Sentinel).val # Sentinel))

\* C8 as amended: when every value stored under k is truthy and has(k)
\* returns true, k is a top-level field and get(k, sentinel) returns the
\* value of that field, unless a field named get or _recursive_search hides
\* the method and the call raises TypeError.
C8_HasImpliesGet ==
    (ret.op = "has" /\ ret.arg = BoolV(FALSE) /\ AllTruthyUnder(self, ret.key)
       /\ ret.val = BoolV(TRUE))
        => /\ HasKey(self.items, ret.key)
           /\ IF Hidden(self.items, "get") \/ Hidden(self.items, "_recursive_search")
              THEN get(self, ret.key, Sentinel).exc = "TypeError"
              ELSE get(self, ret.key, Sentinel) = Ok(Lookup(self.items, ret.key))

\* has(k) has returned true for a key whose top-level value is a Node that
\* holds k again.
C8_Witness ==
    /\ ret.op = "has"
    /\ ret.arg = BoolV(FALSE)
    /\ ret.val = BoolV(TRUE)
    /\ AllTruthyUnder(self, ret.key)
    /\ ~Hidden(self.items, "get")
    /\ Lookup(self.items, ret.key).tag = "node"
    /\ HasKey(Lookup(self.items, ret.key).items, ret.key)

-----------------------------------------------------------------------------
(* Iteration and enumeration *)

MaxSizeIter == 3
IterKeys == {"a", "x__n", "y__n", "BasicRick_a", "_BasicRick__n"}
IterAtoms == {IntV(1), IntV(2)}

InitIter ==
    InitWith({DictBase(m) : m \in Mappings(IterKeys, IterAtoms, FALSE, MaxSizeIter)},
             {"BasicRick"}, {FALSE}, {NoEnv})
NextIter ==
    \/ Construct
    \/ Iter
    \/ NextOp
    \/ LenOp
    \/ Items
    \/ Values
    \/ Keys
    \/ DictOp
    \/ \E key \in {"a", "x__n"} : Get(key, NoneV)
    \/ \E key \in {"a", "x__n"} : Has(key, FALSE)
SpecIter == InitIter /\ [][NextIter]_vars

\* C9: for a BasicRick built from M and only read afterwards (iteration
\* requests and steps included), len() is the number of keys of M, and
\* items() and dict() report exactly the keys of M.
C9_FieldSetIsKeySet ==
    /\ (ret.op = "len" /\ ret.exc = "")
          => ret.val = IntV(Cardinality(KeySet(base.val.items)))
    /\ (ret.op \in {"items", "dict"} /\ ret.exc = "")
          => KeySet(ret.val.items) = KeySet(base.val.items)

\* C10: whatever the field names, an iteration requested once and advanced
\* to StopIteration has yielded exactly what values() returns: the cursor's
\* value and every bookkeeping field skipped.
C10_IterationYieldsValues ==
    out.state = "done"
        => (values(self).exc = "" /\ Elems(out.vals) = values(self).val.items)

-----------------------------------------------------------------------------
(* The YAML round trip *)

MaxSizeYaml == 4
YamlKeys == {"a", "b"}
YamlAtoms == {IntV(1), StrV("s")}

InitYaml ==
    InitWith({DictBase(m) : m \in Mappings(YamlKeys, YamlAtoms, TRUE, MaxSizeYaml)},
             {"BasicRick"}, {FALSE}, {NoEnv})
NextYaml == Construct \/ ToYamlString \/ Rebuild \/ EqOp
SpecYaml == InitYaml /\ [][NextYaml]_vars

\* C4: the Node rebuilt from to_yaml_string()'s text compares equal (==)
\* to the Node the text was written from, whatever the order of M's keys.
C4_YamlRoundTrip ==
    ret.op = "eq" => ret.val = BoolV(TRUE)

-----------------------------------------------------------------------------
(* Placeholders *)

MaxSizeExt == 4
ExtKeys == {"x", "y"}
EnvDefault ==
    Dict(<<<<"type", StrV("env")>>, <<"load", StrV("MY_VAR")>>,
           <<"default", StrV("fallback")>>>>)
EnvBare == Dict(<<<<"type", StrV("env")>>, <<"load", StrV("MY_VAR")>>>>)
Lambda == Dict(<<<<"type", StrV("lambda")>>, <<"load", StrV("1+1")>>>>)
Typed == Dict(<<<<"type", StrV("other")>>>>)
ExtAtoms == {IntV(1), EnvDefault, EnvBare, Lambda, Typed}

InitExt ==
    InitWith({DictBase(m) : m \in Mappings(ExtKeys, ExtAtoms, TRUE, MaxSizeExt)},
             {"ExtendedPickleRick"}, BOOLEAN,
             [EnvNames -> {NoneV, StrV(""), StrV("set")}])
NextExt == Construct \/ \E key \in ExtKeys : GetItem(key)
SpecExt == InitExt /\ [][NextExt]_vars

\* Whether eval()'s result occurs in v.
RECURSIVE HasCode(_)
HasCode(v) == v.tag = "code" \/ \E i \in 1..Len(v.items) : HasCode(v.items[i][2])

\* Every `type: lambda` entry of m, at every depth the builder reaches,
\* holds its load string in d.
RECURSIVE LambdasRaw(_, _, _)
LambdasRaw(m, d, dp) ==
    /\ Len(d) = Len(m)
    /\ \A i \in 1..Len(m) :
        LET v == m[i][2]
            w == d[i][2]
        IN  IF v.tag = "dict" /\ is_env(v) THEN TRUE
            ELSE IF v.tag = "dict" /\ is_lambda(v) THEN w = Lookup(v.items, "load")
            ELSE IF v.tag = "dict" THEN w.tag = "node" /\ LambdasRaw(v.items, w.items, dp)
            ELSE IF v.tag = "list" /\ dp
            THEN /\ w.tag = "list"
                 /\ Len(w.items) = Len(v.items)
                 /\ \A j \in 1..Len(v.items) :
                      v.items[j][2].tag = "dict"
                          => /\ w.items[j][2].tag = "node"
                             /\ LambdasRaw(v.items[j][2].items, w.items[j][2].items, dp)
            ELSE TRUE

\* C5: in an ExtendedPickleRick, a `type: lambda` entry's load is evaluated
\* only if the tree was constructed with load_lambda true; with load_lambda
\* false nothing is evaluated at any depth and the field holds the raw load
\* string.
C5_LambdaOnlyWhenEnabled ==
    status = "built"
        => /\ evaled # <<>> => args
           /\ ~args => /\ evaled = <<>>
                       /\ ~HasCode(self)
                       /\ LambdasRaw(base.val.items, self.items, deep)

\* With load_lambda false and deep set, a Node inside a sequence holds the
\* raw load string of a lambda entry.
C5_Witness ==
    /\ status = "built"
    /\ ~args
    /\ deep
    /\ \E i \in 1..Len(self.items) :
        /\ self.items[i][2].tag = "list"
        /\ \E j \in 1..Len(self.items[i][2].items) :
            /\ self.items[i][2].items[j][2].tag = "node"
            /\ \E k \in 1..Len(self.items[i][2].items[j][2].items) :
                /\ base.val.items[i][2].items[j][2].items[k][2] = Lambda
                /\ self.items[i][2].items[j][2].items[k][2] = StrV("1+1")

\* The value an env entry v resolves to.
EnvValue(v, env) ==
    IF env[Lookup(v.items, "load").s] # NoneV THEN env[Lookup(v.items, "load").s]
    ELSE IF HasKey(v.items, "default") THEN Lookup(v.items, "default")
    ELSE NoneV

\* Every field of m whose value is a `type: env` mapping, at every depth
\* the builder reaches, holds the resolved value in d.
RECURSIVE EnvResolved(_, _, _, _)
EnvResolved(m, d, dp, env) ==
    /\ Len(d) = Len(m)
    /\ \A i \in 1..Len(m) :
        LET v == m[i][2]
            w == d[i][2]
        IN  IF v.tag = "dict" /\ is_env(v) THEN w.tag # "node" /\ w = EnvValue(v, env)
            ELSE IF v.tag = "dict" /\ is_lambda(v) THEN TRUE
            ELSE IF v.tag = "dict"
            THEN w.tag = "node" /\ EnvResolved(v.items, w.items, dp, env)
            ELSE IF v.tag = "list" /\ dp
            THEN /\ w.tag = "list"
                 /\ Len(w.items) = Len(v.items)
                 /\ \A j \in 1..Len(v.items) :
                      v.items[j][2].tag = "dict"
                          => /\ w.items[j][2].tag = "node"
                             /\ EnvResolved(v.items[j][2].items, w.items[j][2].items,
                                            dp, env)
            ELSE TRUE

\* C6: in an ExtendedPickleRick, a field whose source value is a mapping
\* with type = env holds no child Node but the variable's value when the
\* variable is set (default or not), else the default when one is given,
\* else None.
C6_EnvResolves ==
    /\ status = "built" => EnvResolved(base.val.items, self.items, deep, environ)
    /\ (ret.op = "getitem" /\ HasKey(base.val.items, ret.key)
          /\ is_env(Lookup(base.val.items, ret.key)))
          => ret = [NoRet EXCEPT !.op = "getitem", !.key = ret.key,
                      !.val = EnvValue(Lookup(base.val.items, ret.key), environ)]

\* The variable is set, a default is given, and the field read back holds
\* the variable's value.
C6_Witness ==
    /\ ret.op = "getitem"
    /\ HasKey(base.val.items, ret.key)
    /\ Lookup(base.val.items, ret.key) = EnvDefault
    /\ environ["MY_VAR"] = StrV("set")
    /\ ret.val = StrV("set")

-----------------------------------------------------------------------------
(* Input resolution *)

MaxSizeInit == 2
InitMappings == Mappings({"a"}, {IntV(1)}, FALSE, MaxSizeInit)
\* Texts: a JSON document that is YAML too, a YAML document that is no
\* JSON, a JSON document with a tab in it (which the YAML scanner rejects),
\* a sequence, a bare word, an unbalanced bracket, and the empty text.
Texts ==
    {TextOf(m, m) : m \in InitMappings}
    \cup {TextOf(m, ParseError) : m \in InitMappings}
    \cup {TextOf(ParseError, m) : m \in InitMappings}
    \cup {TextOf(List(<<>>), List(<<>>)), TextOf(StrV("word"), ParseError),
          TextOf(ParseError, ParseError), EmptyText}
\* What the name of a file can be as a text: a bare word, or a YAML mapping
\* ("a: 1" names a file as well as any other string).
PathTexts == {TextOf(StrV("word"), ParseError)} \cup {TextOf(m, ParseError) : m \in InitMappings}
Bases ==
    {DictBase(m) : m \in InitMappings}
    \cup {StreamBase(t) : t \in Texts}
    \cup {StrBase(t) : t \in Texts}
    \cup {PathBase(t, f) : t \in PathTexts, f \in Texts}

InitInit == InitWith(Bases, {"BasicRick", "ExtendedPickleRick"}, {FALSE}, {NoEnv})
NextInit == Construct
SpecInit == InitInit /\ [][NextInit]_vars

\* The strategies in the order stated, each with what it parses.
Strategies(b) ==
    CASE b.kind = "dict" -> <<Ok(b.val)>>
      [] b.kind = "stream" -> <<yaml_load(b.val), json_load(b.val)>>
      [] OTHER -> (IF b.isfile THEN <<yaml_load(b.file), json_load(b.file)>> ELSE <<>>)
                  \o <<yaml_load(b.val), json_load(b.val)>>
Yields(b) == {i \in 1..Len(Strategies(b)) : isDict(Strategies(b)[i].val)
                                             /\ Strategies(b)[i].exc = ""}
First(b) == Strategies(b)[CHOOSE i \in Yields(b) : \A j \in Yields(b) : i <= j].val

\* C7: the strategies are tried in order and the first that yields a
\* mapping wins; a strategy's failure never reaches the caller; when none
\* yields a mapping the constructor raises ValueError and nothing else.
C7_FirstMappingOrValueError ==
    status # "new"
        => IF Yields(base) # {}
           THEN /\ status = "built"
                /\ self.items = Built(cls, First(base), deep, args, environ).fields
           ELSE status = "ValueError"

=============================================================================
